---------------------------- MODULE Spec2Model ----------------------------
(***************************************************************************)
(* A model of the tskit/msprime "simplify" reference engine                *)
(* (simplify_work/simplify_algorithms.py), its command-line driver, and    *)
(* the tree-sequence fixture utilities (tests/tsutil.py).                  *)
(*                                                                         *)
(* The engine is modelled as the loop of Simplifier.simplify(): one action *)
(* per call of remove_ancestry and of merge_labeled_ancestors, over an     *)
(* arena of indexed segment records.  The input tree sequence is consumed  *)
(* edgeset by edgeset; each edgeset is drawn from the bounded set of       *)
(* edgesets that keep the input valid.                                     *)
(***************************************************************************)
EXTENDS Integers, Sequences, FiniteSets, TLC

(***************************************************************************)
(* Bounds of the model.                                                    *)
(***************************************************************************)
MaxSamples == 2        \* largest number of samples of the input
MaxInternal == 2       \* number of non-sample (ancestor) nodes of the input
MaxSeqLen == 4         \* largest sequence_length
MaxEdges == 2          \* largest number of edgesets of the input
MaxSegments == 7       \* max_segments handed to the constructor
MaxLoop == 12          \* iterations after which a loop is reported as diverged
FxMaxSamples == 2      \* fixture inputs: largest number of samples
FxMaxInternal == 2     \* fixture inputs: largest number of non-sample nodes
FxSeqLen == 2          \* fixture inputs: sequence length (in grid cells)
FxMaxEdges == 2        \* fixture inputs: largest number of edge rows
FxMaxMutations == 2    \* fixture inputs: largest number of mutations
CliMaxSamples == 3     \* driver: largest number of samples of the loaded file
CliMaxSeed == 3        \* driver: largest --random_seed value

None == 0              \* Python's None for a segment reference (indices start at 1)

VARIABLES
    n,               \* self.n: number of samples of ts
    m,               \* self.m: ts.sequence_length
    samples,         \* the kept sample ids handed to the constructor
    segments,        \* self.segments: arena index -> Segment record
    segment_stack,   \* self.segment_stack: the free list (a stack of indices)
    P,               \* self.P[0]._ancestors: the indices of the registered heads
    C,               \* self.C: the coalescence record log
    S,               \* self.S: the breakpoint counter map (key -> count)
    A,               \* self.A: node id -> arena index (None: no entry)
    t,               \* self.t
    w,               \* self.w: next fresh node id
    H,               \* the heap handed from remove_ancestry to the merge
    edge,            \* the edgeset being processed
    edges_done,      \* the edgesets of ts consumed so far, in file order
    tie,             \* how the heap orders entries with equal keys
    pc,              \* position in simplify(): remove / merge / done / failed
    fx_ts,           \* fixture utilities: the tree sequence handed in
    fx_out,          \* fixture utilities: the tree sequence returned
    fx_op,           \* fixture utilities: the calls made so far
    cli              \* command-line driver: the runs of run_simplify

engine_vars == <<n, m, samples, segments, segment_stack, P, C, S, A, t, w, H,
                 edge, edges_done, tie, pc>>
fx_vars == <<fx_ts, fx_out, fx_op>>
cli_vars == <<cli>>
vars == <<engine_vars, fx_vars, cli_vars>>

Max(a, b) == IF a >= b THEN a ELSE b
Min(a, b) == IF a <= b THEN a ELSE b
SetMax(s) == CHOOSE x \in s : \A y \in s : y <= x
SetMin(s) == CHOOSE x \in s : \A y \in s : x <= y

\* Op applied to the value of val, which is evaluated once.
Let(val, Op(_)) == CHOOSE y \in {Op(x) : x \in {val}} : TRUE

(***************************************************************************)
(* The input tree sequence.  Samples are the nodes 0..n-1 at time 0; the   *)
(* other nodes n..n+MaxInternal-1 are ancestors, older with growing id.    *)
(***************************************************************************)
Nodes == 0 .. (MaxSamples + MaxInternal - 1)
NodeTime(u) == IF u < n THEN 0 ELSE 5 * (u - n + 1)

NoEdge == [left |-> 0, right |-> 0, parent |-> 0 - 1, children |-> {}]

\* Edgesets that may follow the consumed ones in a valid tree sequence:
\* nondecreasing parent time, and within one parent increasing, disjoint
\* intervals; each parent older than its children; every child has at most
\* one parent at each position.
ValidNextEdge(e) ==
    /\ 0 <= e.left /\ e.left < e.right /\ e.right <= m
    /\ e.parent >= n /\ e.parent < n + MaxInternal
    /\ e.children # {}
    /\ \A c \in e.children : NodeTime(c) < NodeTime(e.parent)
    /\ \A i \in 1 .. Len(edges_done) :
          LET d == edges_done[i] IN
          /\ NodeTime(d.parent) <= NodeTime(e.parent)
          /\ d.parent = e.parent => d.right <= e.left
          /\ (d.children \cap e.children # {}) =>
                (d.right <= e.left \/ e.right <= d.left)

EdgeChoices ==
    { e \in [left : 0 .. m - 1, right : 1 .. m,
             parent : n .. (n + MaxInternal - 1),
             children : SUBSET (0 .. (n + MaxInternal - 2))] : ValidNextEdge(e) }


(***************************************************************************)
(* The segment arena (base engine: alloc_segment / free_segment) and the   *)
(* heap.  Operators work on a record s of the engine's mutable fields:     *)
(*   seg, stack, P, A, S, C, w, H, plus err (the exception raised, "ok" if *)
(*   none) and ret (the segment last returned by alloc_segment).           *)
(***************************************************************************)
BlankSegment == [left |-> 0, right |-> 0, node |-> 0 - 1, population |-> 0,
                 prev |-> None, next |-> None]

\* alloc_segment(left, right, node, population, prev, next): pops the free
\* stack; an empty stack raises (IndexError).
alloc_segment(s, left, right, node, population, prev, next) ==
    IF s.err # "ok" THEN s
    ELSE IF s.stack = <<>> THEN [s EXCEPT !.err = "exhausted"]
    ELSE LET i == s.stack[Len(s.stack)] IN
         [s EXCEPT !.stack = SubSeq(s.stack, 1, Len(s.stack) - 1),
                   !.seg[i] = [left |-> left, right |-> right, node |-> node,
                               population |-> population,
                               prev |-> prev, next |-> next],
                   !.ret = i]

\* free_segment(x): returns the slot to the free stack; the record keeps
\* its fields until the slot is allocated again.
free_segment(s, x) == [s EXCEPT !.stack = Append(s.stack, x)]

\* Order of the heap entries (key, segment).  Python compares the tuples;
\* on equal keys it falls to comparing the Segment objects, whose order is
\* not specified: tie selects one of two orders.
HeapLess(a, b) ==
    \/ a.key < b.key
    \/ /\ a.key = b.key
       /\ \/ tie = "lo" /\ a.seg < b.seg
          \/ tie = "hi" /\ a.seg > b.seg

\* heapq.heappush(H, (key, seg)): H is kept as the sequence in pop order.
heappush(h, key, x) ==
    LET e == [key |-> key, seg |-> x]
        k == Cardinality({j \in 1 .. Len(h) : ~HeapLess(e, h[j])})
    IN SubSeq(h, 1, k) \o <<e>> \o SubSeq(h, k + 1, Len(h))

\* SearchablePopulation.from_index: the registered segment with that index.
from_index(s, index) == IF index \in s.P THEN index ELSE None

\* Simplifier.get_ancestor
get_ancestor(s, u) == IF s.A[u] # None THEN from_index(s, s.A[u]) ELSE None

(***************************************************************************)
(* Simplifier.remove_ancestry                                              *)
(***************************************************************************)
\* line 117: the test the code calls "we have overlap".
Overlaps(e, X) == e.left <= X.right /\ e.right >= X.left

\* lines 119-136: the segment w sent to output for the overlap of e with
\* segment v.x; returns the state, y and w.
WalkCarve(s, e, v) ==
    LET X == s.seg[v.x]
        out_left == Max(e.left, X.left)
        out_right == Min(e.right, X.right)
    IN IF X.left < out_left
       THEN Let(alloc_segment([s EXCEPT !.seg[v.x].right = out_left],
                              out_left, out_right, X.node, X.population,
                              v.w, None),
                LAMBDA s1 : [s |-> s1, y |-> v.x, w |-> s1.ret])
       ELSE [s |-> [s EXCEPT !.seg[v.x].prev = v.w,
                             !.seg[v.x].right = out_right],
             y |-> v.y, w |-> v.x]

\* lines 137-139
WalkPush(s, v, w1) ==
    IF v.output_head
    THEN [s EXCEPT !.H = heappush(s.H, s.seg[w1].left, w1)]
    ELSE s

\* lines 140-147: the new segment z for the right overhang (left in s.ret).
WalkOverhang(s, x, y1, out_right, seg_right) ==
    Let(alloc_segment(s, out_right, seg_right, s.seg[x].node,
                      s.seg[x].population, y1, s.seg[x].next),
        LAMBDA s3 :
          IF s3.err # "ok" THEN s3
          ELSE Let(IF y1 # None THEN [s3 EXCEPT !.seg[y1].next = s3.ret]
                   ELSE s3,
                   LAMBDA s4 :
                     IF s4.seg[x].next # None
                     THEN [s4 EXCEPT !.seg[s4.seg[x].next].prev = s4.ret]
                     ELSE s4))

\* The while loop over one child's chain (lines 116-153).  v holds the
\* locals x, y, z, w, output_head, overhang_right.
RECURSIVE ChildWalk(_, _, _)
ChildWalk(s, e, v) ==
    IF s.err # "ok" \/ v.x = None THEN [s |-> s, v |-> v]
    ELSE IF ~(e.right > s.seg[v.x].left) THEN [s |-> s, v |-> v]
    ELSE IF v.fuel = 0 THEN [s |-> [s EXCEPT !.err = "diverged"], v |-> v]
    ELSE IF ~Overlaps(e, s.seg[v.x])
    THEN \* lines 149-153: maybe this segment was the first one before edge
      Let([v EXCEPT !.y = v.x, !.x = s.seg[v.x].next, !.fuel = v.fuel - 1],
          LAMBDA v1 : ChildWalk(s, e, v1))
    ELSE
      LET seg_right == s.seg[v.x].right
          out_right == Min(e.right, s.seg[v.x].right)
          overhang_right == s.seg[v.x].right > out_right
      IN Let(WalkCarve(s, e, v), LAMBDA c :
           IF c.s.err # "ok" THEN [s |-> c.s, v |-> v]
           ELSE Let(WalkPush(c.s, v, c.w), LAMBDA s2 :
             IF overhang_right
             THEN \* lines 140-148, ending in break
               Let(WalkOverhang(s2, v.x, c.y, out_right, seg_right),
                   LAMBDA s5 :
                     [s |-> s5,
                      v |-> [x |-> v.x, y |-> c.y, z |-> s5.ret, w |-> c.w,
                             output_head |-> FALSE, overhang_right |-> TRUE,
                             fuel |-> v.fuel]])
             ELSE \* line 153
               Let([x |-> s2.seg[v.x].next, y |-> c.y, z |-> v.z, w |-> c.w,
                    output_head |-> FALSE, overhang_right |-> FALSE,
                    fuel |-> v.fuel - 1],
                   LAMBDA v1 : ChildWalk(s2, e, v1))))

\* lines 155-167: the wrap-up after the walk over one child's chain.
WrapUp(s, v, child) ==
    IF s.err # "ok" \/ v.output_head THEN s
    ELSE LET z == IF ~v.overhang_right THEN v.x ELSE v.z IN
         Let(IF v.y # None THEN [s EXCEPT !.seg[v.y].next = z] ELSE s,
             LAMBDA s2 :
               Let(IF z # None THEN [s2 EXCEPT !.seg[z].prev = v.y] ELSE s2,
                   LAMBDA s3 :
                     IF v.y = None THEN [s3 EXCEPT !.A[child] = z] ELSE s3))

\* The body of "for child in edge.children" for one child (lines 104-167).
RemoveChild(s, e, child) ==
    IF s.err # "ok" \/ s.A[child] = None THEN s
    ELSE Let(ChildWalk(s, e, [x |-> get_ancestor(s, child), y |-> None,
                              z |-> None, w |-> None, output_head |-> TRUE,
                              overhang_right |-> FALSE, fuel |-> MaxLoop]),
             LAMBDA r : WrapUp(r.s, r.v, child))

\* The children of an edgeset are visited in increasing id.
RECURSIVE SetToSeq(_)
SetToSeq(set) ==
    IF set = {} THEN <<>>
    ELSE <<SetMin(set)>> \o SetToSeq(set \ {SetMin(set)})

RECURSIVE RemoveChildren(_, _, _, _)
RemoveChildren(s, e, kids, i) ==
    IF i > Len(kids) THEN s
    ELSE Let(RemoveChild(s, e, kids[i]),
             LAMBDA s1 : RemoveChildren(s1, e, kids, i + 1))

\* lines 100-102: the parent's own chain goes on the heap first.
PushParent(s, e) ==
    IF s.A[e.parent] = None THEN s
    ELSE IF get_ancestor(s, e.parent) = None
         THEN [s EXCEPT !.err = "attribute"]
         ELSE [s EXCEPT !.H = heappush(s.H,
                                s.seg[get_ancestor(s, e.parent)].left,
                                get_ancestor(s, e.parent))]

\* remove_ancestry(edge): s.H is the returned heap.
remove_ancestry(s, e) ==
    Let(PushParent([s EXCEPT !.H = <<>>], e), LAMBDA s1 :
      Let(SetToSeq(e.children), LAMBDA kids : RemoveChildren(s1, e, kids, 1)))

(***************************************************************************)
(* The breakpoint counter map S (an ordered map; base engine and bintrees) *)
(***************************************************************************)
HasFloor(Sm, k) == \E j \in DOMAIN Sm : j <= k
floor_key(Sm, k) == SetMax({j \in DOMAIN Sm : j <= k})
HasSucc(Sm, k) == \E j \in DOMAIN Sm : j > k
succ_key(Sm, k) == SetMin({j \in DOMAIN Sm : j > k})
SetKey(Sm, k, val) ==
    [x \in DOMAIN Sm \cup {k} |-> IF x = k THEN val ELSE Sm[x]]
DelKey(Sm, k) == [x \in DOMAIN Sm \ {k} |-> Sm[x]]

\* A variant of lines 212-217 that copies the count of the successor key.
EnsureKeyFromSucc(s, k) ==
    IF s.err # "ok" \/ k \in DOMAIN s.S THEN s
    ELSE IF ~HasSucc(s.S, k) THEN [s EXCEPT !.err = "keyerror"]
    ELSE [s EXCEPT !.S = SetKey(s.S, k, s.S[succ_key(s.S, k)])]

\* lines 212-217: make sure S has an entry at k, copied from the floor key.
EnsureKey(s, k) ==
    IF s.err # "ok" \/ k \in DOMAIN s.S THEN s
    ELSE IF ~HasFloor(s.S, k) THEN [s EXCEPT !.err = "keyerror"]
    ELSE [s EXCEPT !.S = SetKey(s.S, k, s.S[floor_key(s.S, k)])]

\* lines 223-226: the walk over the keys of S; returns s with ret = r.
RECURSIVE WalkBreakpoints(_, _, _, _)
WalkBreakpoints(s, r, r_max, lenX) ==
    IF s.err # "ok" THEN s
    ELSE IF ~(r < r_max) THEN [s EXCEPT !.ret = r]
    ELSE IF r \notin DOMAIN s.S THEN [s EXCEPT !.err = "keyerror"]
    ELSE IF ~(s.S[r] # lenX) THEN [s EXCEPT !.ret = r]
    ELSE IF ~HasSucc(s.S, r) THEN [s EXCEPT !.err = "keyerror"]
    ELSE Let([s EXCEPT !.S[r] = s.S[r] - (lenX - 1)], LAMBDA s1 :
           Let(succ_key(s.S, r), LAMBDA r1 :
             WalkBreakpoints(s1, r1, r_max, lenX)))

\* defrag_breakpoints (base engine): drop every key whose count equals the
\* count at the key before it.
RECURSIVE DefragWalk(_, _, _)
DefragWalk(s, j, k) ==
    IF s.err # "ok" \/ ~(k < s.m) THEN s
    ELSE IF ~HasSucc(s.S, j) \/ j \notin DOMAIN s.S
         THEN [s EXCEPT !.err = "keyerror"]
    ELSE Let(succ_key(s.S, j), LAMBDA k1 :
           IF s.S[j] = s.S[k1]
           THEN Let([s EXCEPT !.S = DelKey(s.S, k1)],
                    LAMBDA s1 : DefragWalk(s1, j, k1))
           ELSE DefragWalk(s, k1, k1))

defrag_breakpoints(s) == DefragWalk(s, 0, 0)

\* One step back of defrag_segment_chain: segment y joined to its
\* predecessor x when they abut and carry the same node.
DefragJoin(s, x, y) ==
    IF s.seg[x].right = s.seg[y].left /\ s.seg[x].node = s.seg[y].node
    THEN Let([s EXCEPT !.seg[x].right = s.seg[y].right,
                       !.seg[x].next = s.seg[y].next],
             LAMBDA s1 :
               Let(IF s.seg[y].next # None
                   THEN [s1 EXCEPT !.seg[s.seg[y].next].prev = x] ELSE s1,
                   LAMBDA s2 : free_segment(s2, y)))
    ELSE s

\* defrag_segment_chain(z) (base engine): the walk back from z.
RECURSIVE defrag_segment_chain(_, _, _)
defrag_segment_chain(s, y, fuel) ==
    IF s.err # "ok" THEN s
    ELSE IF fuel = 0 THEN [s EXCEPT !.err = "diverged"]
    ELSE IF s.seg[y].prev = None THEN s
    ELSE Let(DefragJoin(s, s.seg[y].prev, y), LAMBDA s1 :
           Let(s.seg[y].prev, LAMBDA x :
             defrag_segment_chain(s1, x, fuel - 1)))

(***************************************************************************)
(* Simplifier.merge_labeled_ancestors                                      *)
(***************************************************************************)
\* lines 232-239: what becomes of one member x of the batch.
BatchOne(s, x, r) ==
    IF s.seg[x].right = r
    THEN Let(free_segment(s, x), LAMBDA s1 :
           IF s1.seg[x].next # None
           THEN [s1 EXCEPT !.H = heappush(s1.H, s1.seg[s1.seg[x].next].left,
                                          s1.seg[x].next)]
           ELSE s1)
    ELSE IF s.seg[x].right > r
    THEN [s EXCEPT !.seg[x].left = r, !.H = heappush(s.H, r, x)]
    ELSE s

\* lines 230-239: the loop over the batch X (segments in pop order).
RECURSIVE BatchUpdate(_, _, _, _)
BatchUpdate(s, X, i, r) ==
    IF i > Len(X) THEN s
    ELSE Let(BatchOne(s, X[i], r), LAMBDA s1 : BatchUpdate(s1, X, i + 1, r))

\* lines 242-254: the loop tail, integrating alpha into the state.
MergeTail(s, parent, v, alpha) ==
    IF alpha = None THEN [s |-> s, v |-> v]
    ELSE IF v.z = None
    THEN [s |-> [s EXCEPT !.P = s.P \cup {alpha}, !.A[parent] = alpha,
                          !.seg[alpha].prev = None],
          v |-> [v EXCEPT !.z = alpha]]
    ELSE [s |-> [s EXCEPT !.seg[v.z].next = alpha, !.seg[alpha].prev = v.z],
          v |-> [v EXCEPT !.z = alpha,
                          !.defrag_required =
                              v.defrag_required
                              \/ (s.seg[v.z].right = s.seg[alpha].left
                                  /\ s.seg[v.z].node = s.seg[alpha].node)]]

\* line 219: every lineage extant at l is in the batch.
FullyCoalesced(s, l, cnt) == s.S[l] = cnt

\* lines 183-191: pop every entry with the least key; X, l and r_max.
PopBatch(s) ==
    LET l == s.H[1].key
        cnt == Cardinality({j \in 1 .. Len(s.H) : s.H[j].key = s.H[1].key})
    IN Let([j \in 1 .. cnt |-> s.H[j].seg], LAMBDA X :
         Let(SubSeq(s.H, Len(X) + 1, Len(s.H)), LAMBDA Hrest :
           [l |-> l, X |-> X, s |-> [s EXCEPT !.H = Hrest],
            r_max |-> SetMin({s.m + 1}
                             \cup {s.seg[X[j]].right : j \in 1 .. Len(X)}
                             \cup (IF Hrest # <<>> THEN {Hrest[1].key}
                                   ELSE {}))]))

\* A single-member batch that is pushed back as it is: no segment is
\* consumed and no left coordinate advances.
MergeSingleNoProgress(s, x) ==
    [s |-> [s EXCEPT !.H = heappush(s.H, s.seg[x].left, x)], alpha |-> None]

\* lines 192-204: a batch of one segment x; returns the state and alpha.
MergeSingle(s, x) ==
    IF s.H # <<>> /\ s.H[1].key < s.seg[x].right
    THEN Let(alloc_segment(s, s.seg[x].left, s.H[1].key, s.seg[x].node,
                           s.seg[x].population, None, None),
             LAMBDA s1 :
               IF s1.err # "ok" THEN [s |-> s1, alpha |-> None]
               ELSE [s |-> [s1 EXCEPT !.seg[x].left = s1.H[1].key,
                                      !.H = heappush(s1.H, s1.H[1].key, x)],
                     alpha |-> s1.ret])
    ELSE [s |-> [s EXCEPT !.H = IF s.seg[x].next # None
                                THEN heappush(s.H, s.seg[s.seg[x].next].left,
                                              s.seg[x].next)
                                ELSE s.H,
                          !.seg[x].next = None],
          alpha |-> x]

\* lines 219-227: the right end r of the coalesced interval, the update of
\* S, and the segment alpha (None when every lineage coalesced).
CoalesceInterval(s, l, r_max, cnt, u) ==
    IF FullyCoalesced(s, l, cnt)
    THEN IF HasSucc(s.S, l)
         THEN [s |-> [s EXCEPT !.S[l] = 0], r |-> succ_key(s.S, l),
               alpha |-> None]
         ELSE [s |-> [s EXCEPT !.err = "keyerror"], r |-> l, alpha |-> None]
    ELSE Let(WalkBreakpoints(s, l, r_max, cnt), LAMBDA s3 :
           IF s3.err # "ok" THEN [s |-> s3, r |-> l, alpha |-> None]
           ELSE Let(alloc_segment(s3, l, s3.ret, u, 0, None, None),
                    LAMBDA s4 : [s |-> s4, r |-> s3.ret, alpha |-> s4.ret]))

\* lines 206-240: a batch X of several segments (a coalescence); time is
\* self.t.  Returns the state and alpha.
MergeMulti(s, l, X, r_max, coalescence, time) ==
    Let(IF ~coalescence THEN [s EXCEPT !.w = s.w + 1] ELSE s, LAMBDA s1 :
      Let(EnsureKey(s1, l), LAMBDA s2a :
        Let(EnsureKey(s2a, r_max), LAMBDA s2 :
          IF s2.err # "ok" THEN [s |-> s2, alpha |-> None]
          ELSE Let(CoalesceInterval(s2, l, r_max, Len(X), s2.w - 1),
                   LAMBDA c :
            IF c.s.err # "ok" THEN [s |-> c.s, alpha |-> None]
            ELSE Let(BatchUpdate(c.s, X, 1, c.r), LAMBDA s5 :
                   [s |-> [s5 EXCEPT !.C = Append(s5.C,
                             [l |-> l, r |-> c.r, u |-> s2.w - 1,
                              children |->
                                 [j \in 1 .. Len(X) |-> c.s.seg[X[j]].node],
                              t |-> time])],
                    alpha |-> c.alpha])))))

\* The loop "while len(H) > 0" (lines 179-254).  v holds the locals z,
\* defrag_required, coalescence.
RECURSIVE MergeLoop(_, _, _, _, _)
MergeLoop(s, parent, v, time, fuel) ==
    IF s.err # "ok" \/ s.H = <<>> THEN [s |-> s, v |-> v]
    ELSE IF fuel = 0 THEN [s |-> [s EXCEPT !.err = "diverged"], v |-> v]
    ELSE Let(PopBatch(s), LAMBDA b :
      Let(IF Len(b.X) = 1 THEN MergeSingle(b.s, b.X[1])
          ELSE MergeMulti(b.s, b.l, b.X, b.r_max, v.coalescence, time),
          LAMBDA o :
            IF o.s.err # "ok" THEN [s |-> o.s, v |-> v]
            ELSE Let(MergeTail(o.s, parent,
                               [v EXCEPT !.coalescence =
                                             v.coalescence \/ Len(b.X) > 1],
                               o.alpha),
                     LAMBDA tl :
                       MergeLoop(tl.s, parent, tl.v, time, fuel - 1))))

\* lines 255-258: the deferred defragmentation passes.
MergeFinish(s, v) ==
    IF s.err # "ok" THEN s
    ELSE Let(IF v.defrag_required
             THEN defrag_segment_chain(s, v.z, MaxLoop) ELSE s,
             LAMBDA s1 :
               IF s1.err = "ok" /\ v.coalescence
               THEN defrag_breakpoints(s1) ELSE s1)

\* merge_labeled_ancestors(H, parent, pop_id), at time self.t
merge_labeled_ancestors(s, parent, time) ==
    Let(MergeLoop(s, parent, [z |-> None, defrag_required |-> FALSE,
                              coalescence |-> FALSE], time, MaxLoop),
        LAMBDA r : MergeFinish(r.s, r.v))

(***************************************************************************)
(* Simplifier.__init__ and the loop of Simplifier.simplify                 *)
(***************************************************************************)
\* lines 64-69: one full-length segment per kept sample, in increasing id.
RECURSIVE InitSamples(_, _, _, _)
InitSamples(s, k, nn, kept) ==
    IF k >= nn THEN s
    ELSE IF k \in kept
         THEN Let(alloc_segment(s, 0, s.m, k, 0, None, None), LAMBDA s1 :
                Let([s1 EXCEPT !.P = s1.P \cup {s1.ret}, !.A[k] = s1.ret],
                    LAMBDA s2 : InitSamples(s2, k + 1, nn, kept)))
         ELSE InitSamples(s, k + 1, nn, kept)

\* A seed of S that counts one lineage more than the samples of ts.
OneMoreLineage(nn, kept) == nn + 1

\* A first fresh node id taken from the number of kept samples.
NextIdFromKept(nn, kept) == Cardinality(kept)

\* lines 70-73: the seed of S, and the first fresh node id.
InitialCount(nn, kept) == nn
InitialNextId(nn, kept) == nn

\* Simplifier.__init__(ts, samples, max_segments)
Construct(nn, mm, kept) ==
    Let(InitSamples([seg |-> [j \in 1 .. MaxSegments |-> BlankSegment],
                     stack |-> [j \in 1 .. MaxSegments |-> j],
                     P |-> {}, C |-> <<>>, S |-> <<>>,
                     A |-> [u \in Nodes |-> None],
                     w |-> 0, H |-> <<>>, m |-> mm, err |-> "ok",
                     ret |-> None], 0, nn, kept),
        LAMBDA s1 :
          [s1 EXCEPT !.S = SetKey(SetKey(s1.S, 0, InitialCount(nn, kept)),
                                  mm, 0 - 1),
                     !.w = InitialNextId(nn, kept)])

\* The engine's fields as one record, and back.
EngineState ==
    [seg |-> segments, stack |-> segment_stack, P |-> P, C |-> C, S |-> S,
     A |-> A, w |-> w, H |-> H, m |-> m, err |-> "ok", ret |-> None]

Store(s) ==
    /\ segments' = s.seg
    /\ segment_stack' = s.stack
    /\ P' = s.P
    /\ C' = s.C
    /\ S' = s.S
    /\ A' = s.A
    /\ w' = s.w
    /\ H' = s.H

EngineInit ==
    /\ n \in 1 .. MaxSamples
    /\ m \in 1 .. MaxSeqLen
    /\ samples \in SUBSET (0 .. n - 1)
    /\ tie \in {"lo", "hi"}
    /\ \E s \in {Construct(n, m, samples)} :
         /\ segments = s.seg
         /\ segment_stack = s.stack
         /\ P = s.P
         /\ C = s.C
         /\ S = s.S
         /\ A = s.A
         /\ w = s.w
         /\ H = s.H
    /\ t = 0
    /\ edge = NoEdge
    /\ edges_done = <<>>
    /\ pc = "remove"

\* simplify(), lines 78-82: take the next edgeset, set the time, and pull
\* out the ancestry to be merged.  An exception ends the run.
RemoveStep ==
    /\ pc = "remove"
    /\ Len(edges_done) < MaxEdges
    /\ \E e \in EdgeChoices :
       \E s1 \in {remove_ancestry(EngineState, e)} :
         /\ edge' = e
         /\ edges_done' = Append(edges_done, e)
         /\ t' = NodeTime(e.parent)
         /\ IF s1.err = "ok"
            THEN Store(s1) /\ pc' = "merge"
            ELSE /\ pc' = s1.err
                 /\ UNCHANGED <<segments, segment_stack, P, C, S, A, w, H>>
    /\ UNCHANGED <<n, m, samples, tie, fx_vars, cli_vars>>

\* simplify(), line 84: merge the heap into the edgeset's parent.
MergeStep ==
    /\ pc = "merge"
    /\ \E s1 \in {merge_labeled_ancestors(EngineState, edge.parent, t)} :
         IF s1.err = "ok"
         THEN Store(s1) /\ pc' = "remove"
         ELSE /\ pc' = s1.err
              /\ UNCHANGED <<segments, segment_stack, P, C, S, A, w, H>>
    /\ UNCHANGED <<n, m, samples, tie, t, edge, edges_done, fx_vars, cli_vars>>

\* simplify() returns when the edgesets are used up.
Finish ==
    /\ pc = "remove"
    /\ pc' = "done"
    /\ UNCHANGED <<n, m, samples, segments, segment_stack, P, C, S, A, t, w,
                   H, edge, edges_done, tie, fx_vars, cli_vars>>

(***************************************************************************)
(* Reading the arena: chains, live segments, free slots.                   *)
(***************************************************************************)
RECURSIVE ChainFrom(_, _, _)
ChainFrom(segs, i, seen) ==
    IF i = None \/ i \in seen THEN seen
    ELSE ChainFrom(segs, segs[i].next, seen \cup {i})

\* The segments reachable by next links from the heads named in A.
LiveSegments ==
    UNION {ChainFrom(segments, A[u], {}) : u \in {v \in Nodes : A[v] # None}}

FreeSlots == {segment_stack[j] : j \in 1 .. Len(segment_stack)}

(***************************************************************************)
(* tests/tsutil.py: the fixture utilities.  A tree sequence is the record  *)
(* of its tables: nodes (flags, time), edges (left, right, parent, child), *)
(* sites (position, ancestral_state) and mutations (site, node,            *)
(* derived_state, parent); node u is row u + 1.  Coordinates are counted   *)
(* in half grid cells, so that the midpoint of an input interval is exact. *)
(***************************************************************************)
NULL == 0 - 1          \* msprime.NULL_NODE / NULL_MUTATION

EmptyTs == [nodes |-> <<>>, edges |-> <<>>, sites |-> <<>>,
            mutations |-> <<>>]

NumNodes(ts) == Len(ts.nodes)
SampleIds(ts) == {u \in 0 .. NumNodes(ts) - 1 : ts.nodes[u + 1].flags = 1}

\* msprime.sort_tables on the edge table: by time of parent, then parent,
\* child and left.
EdgeBefore(a, b, nodes) ==
    LET ka == <<nodes[a.parent + 1].time, a.parent, a.child, a.left>>
        kb == <<nodes[b.parent + 1].time, b.parent, b.child, b.left>>
    IN \E i \in 1 .. 4 : ka[i] < kb[i] /\ \A j \in 1 .. i - 1 : ka[j] = kb[j]

RECURSIVE SortRows(_, _)
SortRows(rows, nodes) ==
    IF rows = {} THEN <<>>
    ELSE LET first == CHOOSE a \in rows :
                         \A b \in rows \ {a} : EdgeBefore(a, b, nodes)
         IN <<first>> \o SortRows(rows \ {first}, nodes)

sort_edges(edges, nodes) ==
    SortRows({edges[i] : i \in 1 .. Len(edges)}, nodes)

\* numpy's a[lo:hi] = val on an array held as a sequence.
SliceIndex(i, len) == IF i < 0 THEN Max(i + len, 0) ELSE Min(i, len)
SliceAssign(a, lo, hi, val) ==
    LET from == SliceIndex(lo, Len(a))
        to == SliceIndex(hi, Len(a))
    IN [j \in 1 .. Len(a) |-> IF from <= j - 1 /\ j - 1 < to THEN val ELSE a[j]]

\* jiggle_samples(ts), lines 187-195
jiggle_samples(ts) ==
    LET flags == [j \in 1 .. Len(ts.nodes) |-> ts.nodes[j].flags]
        oldest_parent == ts.edges[Len(ts.edges)].parent
        nn == Cardinality(SampleIds(ts))
        f1 == SliceAssign(flags, 0, nn \div 2, 0)
        f2 == SliceAssign(f1, oldest_parent - nn \div 2, oldest_parent, 1)
    IN [nodes |-> [j \in 1 .. Len(ts.nodes) |->
                      [flags |-> f2[j], time |-> ts.nodes[j].time]],
        edges |-> ts.edges, sites |-> <<>>, mutations |-> <<>>]

\* lines 105-107: reverse_map, filled in increasing j over a list of zeros.
reverse_map(node_map, num_nodes) ==
    [k \in 0 .. num_nodes - 1 |->
        LET pre == {j \in 0 .. num_nodes - 1 : node_map[j] = k} IN
        IF pre = {} THEN 0 ELSE SetMax(pre)]

\* lines 125-128: the row written for a mutation (no parent is passed, so
\* the table stores NULL).
permuted_mutation(mut, node_map) ==
    [site |-> mut.site, node |-> node_map[mut.node],
     derived_state |-> mut.derived_state, parent |-> NULL]

\* permute_nodes(ts, node_map), lines 105-132
permute_nodes(ts, node_map) ==
    LET rm == reverse_map(node_map, NumNodes(ts))
        new_nodes == [j \in 1 .. NumNodes(ts) |-> ts.nodes[rm[j - 1] + 1]]
        new_edges == [i \in 1 .. Len(ts.edges) |->
                        [left |-> ts.edges[i].left, right |-> ts.edges[i].right,
                         parent |-> node_map[ts.edges[i].parent],
                         child |-> node_map[ts.edges[i].child]]]
        new_mutations == [i \in 1 .. Len(ts.mutations) |->
                            permuted_mutation(ts.mutations[i], node_map)]
    IN [nodes |-> new_nodes, edges |-> sort_edges(new_edges, new_nodes),
        sites |-> ts.sites, mutations |-> new_mutations]

\* A split point at the left end instead of the middle.
left_end(r) == r.left

\* line 142: x = r.left + (r.right - r.left) / 2
midpoint(r) == r.left + (r.right - r.left) \div 2

\* lines 141-146: the two rows added for edge r.
split_edge(r) ==
    << [left |-> r.left, right |-> midpoint(r), parent |-> r.parent,
        child |-> r.child],
       [left |-> midpoint(r), right |-> r.right, parent |-> r.parent,
        child |-> r.child] >>

RECURSIVE SplitAll(_, _)
SplitAll(edges, i) ==
    IF i > Len(edges) THEN <<>>
    ELSE split_edge(edges[i]) \o SplitAll(edges, i + 1)

\* insert_redundant_breakpoints(ts), lines 139-149
insert_redundant_breakpoints(ts) == [ts EXCEPT !.edges = SplitAll(ts.edges, 1)]

(***************************************************************************)
(* The inputs of the fixture utilities: samples 0..ns-1 at time 0, older   *)
(* nodes above them, a sorted edge table in which no child has two parents *)
(* at one position, one site, and mutations that may name an earlier       *)
(* mutation as parent.                                                     *)
(***************************************************************************)
FxNodes(ns, ni) ==
    [j \in 1 .. ns + ni |->
        IF j <= ns THEN [flags |-> 1, time |-> 0]
        ELSE [flags |-> 0, time |-> j - ns]]

FxRows(ns, ni) ==
    { r \in [left : {2 * c : c \in 0 .. FxSeqLen - 1},
             right : {2 * c : c \in 1 .. FxSeqLen},
             parent : ns .. ns + ni - 1,
             child : 0 .. ns + ni - 2] : r.left < r.right /\ r.child < r.parent }

FxRowSetOk(rows) ==
    \A a \in rows : \A b \in rows \ {a} :
        a.child = b.child => (a.right <= b.left \/ b.right <= a.left)

FxMutationLists(nn) ==
    UNION { { ms \in [1 .. k -> [site : {0}, node : 0 .. nn - 1,
                                 derived_state : {"1"},
                                 parent : NULL .. k - 2]] :
                \A i \in 1 .. k : ms[i].parent < i - 1 }
            : k \in 0 .. FxMaxMutations }

RECURSIVE SubsetsUpTo(_, _)
SubsetsUpTo(set, k) ==
    IF k = 0 THEN {{}}
    ELSE LET prev == SubsetsUpTo(set, k - 1) IN
         prev \cup {q \cup {x} : q \in prev, x \in set}

FxInputs(max_ns, max_ni) ==
    UNION { UNION { { [nodes |-> FxNodes(ns, ni),
                       edges |-> SortRows(rows, FxNodes(ns, ni)),
                       sites |-> IF ms = <<>> THEN <<>>
                                 ELSE <<[position |-> 0,
                                         ancestral_state |-> "0"]>>,
                       mutations |-> ms]
                      : ms \in FxMutationLists(ns + ni) }
                    : rows \in { rs \in SubsetsUpTo(FxRows(ns, ni), FxMaxEdges) :
                                   rs # {} /\ FxRowSetOk(rs) } }
            : <<ns, ni>> \in (1 .. max_ns) \X (1 .. max_ni) }

Bijections(nn) ==
    { f \in [0 .. nn - 1 -> 0 .. nn - 1] :
        \A a \in 0 .. nn - 1 : \A b \in 0 .. nn - 1 : f[a] = f[b] => a = b }

Inverse(f) == [k \in DOMAIN f |-> CHOOSE j \in DOMAIN f : f[j] = k]

(***************************************************************************)
(* run_simplify (the command-line driver) and the process-wide random      *)
(* source.  The generator is a small linear congruential one; seeding      *)
(* replaces its state by a function of the seed.                           *)
(***************************************************************************)
RngStates == 0 .. 15
RngNext(x) == (5 * x + 3) % 16
SeedState(a) == (7 * a + 1) % 16

\* random.sample(population, k): k draws without replacement from a pool.
RECURSIVE SampleLoop(_, _, _, _)
SampleLoop(rng, pool, i, k) ==
    IF i >= k THEN [rng |-> rng, result |-> <<>>]
    ELSE LET j == (rng % (Len(pool) - i)) + 1
             last == Len(pool) - i
             pool1 == [pool EXCEPT ![j] = pool[last]]
             rest == SampleLoop(RngNext(rng), pool1, i + 1, k)
         IN [rng |-> rest.rng, result |-> <<pool[j]>> \o rest.result]

random_sample(rng, population, k) == SampleLoop(rng, population, 0, k)

\* Lines 266 and 267 in the other order: seed first, then draw.
run_simplify_seed_then_draw(p) ==
    LET d == random_sample(SeedState(p.random_seed),
                           [j \in 1 .. p.num_samples |-> j - 1],
                           p.sample_size)
    IN [p EXCEPT !.samples = d.result, !.rng = d.rng, !.pc = "drawn"]

\* line 266: samples = random.sample(ts.samples(), args.sample_size)
run_simplify_draw(p) ==
    LET d == random_sample(p.rng, [j \in 1 .. p.num_samples |-> j - 1],
                           p.sample_size)
    IN [p EXCEPT !.samples = d.result, !.rng = d.rng, !.pc = "drawn"]

\* line 267: random.seed(args.random_seed)
run_simplify_seed(p) ==
    [p EXCEPT !.rng = SeedState(p.random_seed), !.pc = "seeded"]

(***************************************************************************)
(* Initial states and actions.                                             *)
(***************************************************************************)
EngineIdle ==
    /\ n = 0 /\ m = 0 /\ samples = {} /\ segments = <<>>
    /\ segment_stack = <<>> /\ P = {} /\ C = <<>> /\ S = <<>> /\ A = <<>>
    /\ t = 0 /\ w = 0 /\ H = <<>> /\ edge = NoEdge /\ edges_done = <<>>
    /\ tie = "lo" /\ pc = "idle"

FxIdle == fx_ts = EmptyTs /\ fx_out = EmptyTs /\ fx_op = <<>>

CliIdle == cli = <<>>

Init == EngineInit /\ FxIdle /\ CliIdle

Next == RemoveStep \/ MergeStep \/ Finish

Spec == Init /\ [][Next]_vars

\* The fixture utilities, each applied to a tree sequence of FxInputs.
FxInit ==
    /\ EngineIdle /\ CliIdle
    /\ fx_ts \in FxInputs(FxMaxSamples, FxMaxInternal)
    /\ fx_out = EmptyTs /\ fx_op = <<>>

JiggleSamples ==
    /\ fx_op = <<>>
    /\ fx_out' = jiggle_samples(fx_ts)
    /\ fx_op' = <<[name |-> "jiggle_samples", node_map |-> <<>>]>>
    /\ UNCHANGED <<fx_ts, engine_vars, cli_vars>>

InsertRedundantBreakpoints ==
    /\ fx_op = <<>>
    /\ fx_out' = insert_redundant_breakpoints(fx_ts)
    /\ fx_op' = <<[name |-> "insert_redundant_breakpoints", node_map |-> <<>>]>>
    /\ UNCHANGED <<fx_ts, engine_vars, cli_vars>>

PermuteNodes ==
    /\ fx_op = <<>>
    /\ \E f \in Bijections(NumNodes(fx_ts)) :
         /\ fx_out' = permute_nodes(fx_ts, f)
         /\ fx_op' = <<[name |-> "permute_nodes", node_map |-> f]>>
    /\ UNCHANGED <<fx_ts, engine_vars, cli_vars>>

\* permute_nodes applied to the result of permute_nodes, with the inverse map.
PermuteBack ==
    /\ Len(fx_op) = 1
    /\ fx_op[1].name = "permute_nodes"
    /\ fx_out' = permute_nodes(fx_out, Inverse(fx_op[1].node_map))
    /\ fx_op' = Append(fx_op, [name |-> "permute_nodes",
                               node_map |-> Inverse(fx_op[1].node_map)])
    /\ UNCHANGED <<fx_ts, engine_vars, cli_vars>>

FxNext == JiggleSamples \/ InsertRedundantBreakpoints \/ PermuteNodes
          \/ PermuteBack

SpecFixture == FxInit /\ [][FxNext]_vars

\* Two runs of the simplify subcommand on the same file, started from the
\* same state of the random source, each with its own --random_seed.
CliInit ==
    /\ EngineIdle /\ FxIdle
    /\ \E r0 \in RngStates : \E ns \in 1 .. CliMaxSamples :
       \E k \in 1 .. ns :
         cli \in [1 .. 2 -> [rng : {r0}, random_seed : 0 .. CliMaxSeed,
                             num_samples : {ns}, sample_size : {k},
                             samples : {<<>>}, pc : {"loaded"}]]

CliDraw(i) ==
    /\ cli[i].pc = "loaded"
    /\ cli' = [cli EXCEPT ![i] = run_simplify_draw(cli[i])]
    /\ UNCHANGED <<engine_vars, fx_vars>>

CliSeed(i) ==
    /\ cli[i].pc = "drawn"
    /\ cli' = [cli EXCEPT ![i] = run_simplify_seed(cli[i])]
    /\ UNCHANGED <<engine_vars, fx_vars>>

CliNext == \E i \in 1 .. 2 : CliDraw(i) \/ CliSeed(i)

SpecCLI == CliInit /\ [][CliNext]_vars

(***************************************************************************)
(* Properties of the simplify engine (specification Spec).                 *)
(***************************************************************************)
\* C1: after a simplify() run that did not exhaust the arena, the segments
\* reachable by next links from the heads named in A plus the slots on the
\* free list number max_segments: no segment is leaked (neither free nor
\* reachable) and none is both free and reachable.
ArenaConservation ==
    pc = "done" =>
        /\ Cardinality(LiveSegments) + Len(segment_stack) = MaxSegments
        /\ LiveSegments \cup FreeSlots = 1 .. MaxSegments
        /\ LiveSegments \cap FreeSlots = {}

\* The time of a node named in the record log: 0 for a sample, and for a
\* fresh id the time of the first record that has it as parent.
NodeCreatedAt(c) ==
    LET ks == {k \in 1 .. Len(C) : C[k].u = c} IN
    IF c < n \/ ks = {} THEN 0 ELSE C[SetMin(ks)].t

\* C2: for a non-empty kept sample subset, every record (l, r, u, children,
\* t) of the log C has l < r and t greater than the time of each child.
OutputValidity ==
    samples # {} =>
        \A i \in 1 .. Len(C) :
            /\ C[i].l < C[i].r
            /\ \A j \in 1 .. Len(C[i].children) :
                   NodeCreatedAt(C[i].children[j]) < C[i].t

\* The input has no unary node: every edgeset has two children or more, and
\* a non-sample child is the parent of earlier edgesets over every position
\* where it is a child.
NoUnaryInput ==
    \A i \in 1 .. Len(edges_done) :
        /\ Cardinality(edges_done[i].children) >= 2
        /\ \A c \in edges_done[i].children : c >= n =>
              \A x \in edges_done[i].left .. edges_done[i].right - 1 :
                  \E j \in 1 .. i - 1 :
                      /\ edges_done[j].parent = c
                      /\ edges_done[j].left <= x /\ x < edges_done[j].right

\* Coalescence events as sets of <<position, parent, child set, time>>, which
\* joins the records of one parent and child set over abutting intervals.
InputEvents ==
    UNION { { <<x, edges_done[i].parent, edges_done[i].children,
                NodeTime(edges_done[i].parent)>>
              : x \in edges_done[i].left .. edges_done[i].right - 1 }
            : i \in 1 .. Len(edges_done) }

OutputEvents ==
    UNION { { <<x, C[i].u,
                {C[i].children[j] : j \in 1 .. Len(C[i].children)}, C[i].t>>
              : x \in C[i].l .. C[i].r - 1 }
            : i \in 1 .. Len(C) }

\* An event under a renaming f of the non-sample nodes.
RenameEvent(f, ev) ==
    <<ev[1], f[ev[2]], {IF c < n THEN c ELSE f[c] : c \in ev[3]}, ev[4]>>

\* C3: with every sample kept and an input without unary nodes, there is a
\* one-to-one renaming of the parent ids under which the records of C are
\* exactly the input's coalescence events.
FullSampleIdentity ==
    (pc = "done" /\ samples = 0 .. n - 1 /\ NoUnaryInput) =>
        \E f \in [n .. n + MaxInternal - 1 -> n .. n + MaxEdges] :
            /\ \A a, b \in {e[2] : e \in InputEvents} : f[a] = f[b] => a = b
            /\ {RenameEvent(f, ev) : ev \in InputEvents} = OutputEvents

\* The scenario of one coalescence: two samples, both kept, and one edgeset
\* with parent 2 and children {0, 1} over the whole sequence, at time 5.
SingleCoalescenceRun ==
    /\ pc = "done"
    /\ n = 2 /\ samples = {0, 1}
    /\ edges_done = <<[left |-> 0, right |-> m, parent |-> 2,
                       children |-> {0, 1}]>>
    /\ NodeTime(2) = 5

InteriorSplit ==
    [][ (pc = "remove" /\ pc' = "merge") =>
          \A c \in edge'.children :
            ( /\ A[c] # None
              /\ segments[A[c]].prev = None /\ segments[A[c]].next = None
              /\ segments[A[c]].left < edge'.left
              /\ edge'.right < segments[A[c]].right )
            =>
            LET x == segments[A[c]]
                entries == {j \in 1 .. Len(H') :
                              /\ segments'[H'[j].seg].node = x.node
                              /\ x.left <= segments'[H'[j].seg].left
                              /\ segments'[H'[j].seg].right <= x.right}
            IN /\ A'[c] = A[c]
               /\ segments'[A[c]].left = x.left
               /\ segments'[A[c]].right = edge'.left
               /\ segments'[A[c]].prev = None
               /\ segments'[A[c]].next # None
               /\ segments'[segments'[A[c]].next].left = edge'.right
               /\ segments'[segments'[A[c]].next].right = x.right
               /\ segments'[segments'[A[c]].next].prev = A[c]
               /\ segments'[segments'[A[c]].next].next = None
               /\ segments'[segments'[A[c]].next].node = x.node
               /\ Cardinality(entries) = 1
               /\ \A j \in entries :
                     /\ H'[j].key = edge'.left
                     /\ segments'[H'[j].seg].left = edge'.left
                     /\ segments'[H'[j].seg].right = edge'.right
      ]_vars

\* C6: the constructed engine, for n samples of which k are kept, has
\* exactly k segments, each [0, sequence_length) with its own sample id,
\* registered as a head and recorded in A; S is {0: k, sequence_length: -1};
\* the time is 0 and the next fresh node id is k.
InitialState ==
    (pc = "remove" /\ edges_done = <<>>) =>
        LET k == Cardinality(samples) IN
        /\ Len(segment_stack) = MaxSegments - k
        /\ \A u \in samples :
              /\ A[u] # None /\ A[u] \in P /\ A[u] \notin FreeSlots
              /\ segments[A[u]].left = 0 /\ segments[A[u]].right = m
              /\ segments[A[u]].node = u
        /\ \A u, v \in samples : A[u] = A[v] => u = v
        /\ \A u \in Nodes \ samples : A[u] = None
        /\ Cardinality(P) = k
        /\ DOMAIN S = {0, m} /\ S[0] = k /\ S[m] = 0 - 1
        /\ t = 0
        /\ w = k

(***************************************************************************)
(* Properties of the fixture utilities (specification SpecFixture).        *)
(***************************************************************************)
\* C7: jiggle_samples(ts), for a ts whose n samples are the nodes 0..n-1,
\* returns n nodes with the sample flag, a different set of flagged nodes,
\* and the edge rows and node times of ts.
JiggleKeepsCount ==
    (fx_op # <<>> /\ fx_op[1].name = "jiggle_samples") =>
        /\ Cardinality(SampleIds(fx_out)) = Cardinality(SampleIds(fx_ts))
        /\ SampleIds(fx_out) # SampleIds(fx_ts)
        /\ fx_out.edges = fx_ts.edges
        /\ Len(fx_out.nodes) = Len(fx_ts.nodes)
        /\ \A j \in 1 .. Len(fx_ts.nodes) :
               fx_out.nodes[j].time = fx_ts.nodes[j].time

\* C8: permute_nodes(permute_nodes(ts, m), inverse(m)) has the node, edge,
\* site and mutation rows of ts, each mutation with its node and its parent
\* mutation.
PermuteRoundTrip ==
    (Len(fx_op) = 2 /\ fx_op[2].name = "permute_nodes") =>
        /\ fx_out.nodes = fx_ts.nodes
        /\ sort_edges(fx_out.edges, fx_out.nodes)
               = sort_edges(fx_ts.edges, fx_ts.nodes)
        /\ fx_out.sites = fx_ts.sites
        /\ fx_out.mutations = fx_ts.mutations

\* C9: insert_redundant_breakpoints(ts) returns twice the edges of ts: edge
\* i of ts becomes (left, mid, parent, child) and (mid, right, parent, child)
\* with mid the midpoint, left < mid < right; nodes, sites and mutations are
\* those of ts, and ts itself is as it was.
RedundantBreakpoints ==
    [][ (fx_op = <<>> /\ fx_op' # <<>>
         /\ fx_op'[1].name = "insert_redundant_breakpoints") =>
          /\ fx_ts' = fx_ts
          /\ Len(fx_out'.edges) = 2 * Len(fx_ts.edges)
          /\ \A i \in 1 .. Len(fx_ts.edges) :
               LET r == fx_ts.edges[i]
                   a == fx_out'.edges[2 * i - 1]
                   b == fx_out'.edges[2 * i]
               IN /\ a.left = r.left /\ b.right = r.right
                  /\ a.right = b.left
                  /\ 2 * a.right = r.left + r.right
                  /\ a.left < a.right /\ b.left < b.right
                  /\ a.parent = r.parent /\ b.parent = r.parent
                  /\ a.child = r.child /\ b.child = r.child
          /\ fx_out'.nodes = fx_ts.nodes
          /\ fx_out'.sites = fx_ts.sites
          /\ fx_out'.mutations = fx_ts.mutations
      ]_vars

RedundantBreakpointsReached ==
    /\ fx_op # <<>> /\ fx_op[1].name = "insert_redundant_breakpoints"
    /\ Len(fx_ts.edges) = 2 /\ Len(fx_out.edges) = 4
    /\ fx_ts.mutations # <<>>

(***************************************************************************)
(* Properties of the command-line driver (specification SpecCLI).          *)
(***************************************************************************)
\* C10: the subset is drawn before --random_seed is applied: two runs from
\* the same state of the random source and the same input draw the same
\* subset, whatever their seeds.
DrawBeforeSeed ==
    (cli[1].pc # "loaded" /\ cli[2].pc # "loaded") =>
        cli[1].samples = cli[2].samples

DrawBeforeSeedReached ==
    /\ cli[1].pc = "seeded" /\ cli[2].pc = "seeded"
    /\ cli[1].random_seed # cli[2].random_seed
    /\ cli[1].rng # cli[2].rng
    /\ Len(cli[1].samples) >= 1

(***************************************************************************)
(* Properties of remove_ancestry and merge_labeled_ancestors as steps of   *)
(* simplify() (specification Spec).                                        *)
(***************************************************************************)
\* The positions covered by a set of segments of an arena.
CellsOf(segs, set) ==
    UNION {segs[i].left .. segs[i].right - 1 : i \in set}

\* remove_ancestry(edge) has just returned.
RemoveReturned == pc = "remove" /\ pc' = "merge"

\* The children of the edge for which get_ancestor found a chain head
\* before the call.
ChildrenWithChain(e) ==
    {c \in e.children : A[c] # None /\ get_ancestor(EngineState, c) # None}

\* The heap entries of the returned heap that came from the chain of child
\* c: the entries whose segment starts inside a segment the chain had
\* before the call, with that segment's node label.
HeapEntriesOf(c) ==
    {j \in 1 .. Len(H') :
        \E i \in ChainFrom(segments, A[c], {}) :
            /\ segments[i].node = segments'[H'[j].seg].node
            /\ segments[i].left <= segments'[H'[j].seg].left
            /\ segments'[H'[j].seg].left < segments[i].right}

\* C11: after remove_ancestry(edge), for every child with a chain, the
\* segments reachable from the child's heap entry cover exactly the child's
\* previous ancestry inside [left, right), each with positive length; the
\* chain left to the child covers exactly the previous ancestry outside
\* [left, right); and no extracted segment is linked to a retained one.
ExtractionPartitions ==
    [][ RemoveReturned =>
          \A c \in ChildrenWithChain(edge') :
            LET before == CellsOf(segments, ChainFrom(segments, A[c], {}))
                inside == edge'.left .. edge'.right - 1
                extracted == UNION {ChainFrom(segments', H'[j].seg, {})
                                      : j \in HeapEntriesOf(c)}
                retained == ChainFrom(segments', A'[c], {})
            IN /\ CellsOf(segments', extracted) = before \cap inside
               /\ \A i \in extracted : segments'[i].left < segments'[i].right
               /\ CellsOf(segments', retained) = before \ inside
               /\ extracted \cap retained = {}
      ]_vars

\* C12: after remove_ancestry(edge), for each child that had an entry in A:
\* if part of its ancestry lies outside [left, right), A[child] names the
\* leftmost surviving segment (the entry is unchanged when ancestry survives
\* before the removed run); if nothing survives, the child has no entry.
BookkeepingAfterExtraction ==
    [][ RemoveReturned =>
          \A c \in {d \in edge'.children : A[d] # None} :
            LET before == CellsOf(segments, ChainFrom(segments, A[c], {}))
                surviving == before \ (edge'.left .. edge'.right - 1)
            IN IF surviving = {}
               THEN A'[c] = None
               ELSE /\ A'[c] # None
                    /\ segments'[A'[c]].left = SetMin(surviving)
                    /\ segments'[A'[c]].left < segments'[A'[c]].right
                    /\ SetMin(surviving) < edge'.left => A'[c] = A[c]
      ]_vars

\* simplify() is between two edgesets (or has returned).
BetweenEdges == pc \in {"remove", "done"}

\* C13: between edge steps, every node with an entry in A has its segment
\* registered as a chain head, so get_ancestor(u) is absent exactly when u
\* has no entry in A.
LockstepOfAAndRegistry ==
    BetweenEdges =>
        \A u \in Nodes :
            /\ A[u] # None => A[u] \in P
            /\ (get_ancestor(EngineState, u) = None) <=> (A[u] = None)

\* The children whose chain, as get_ancestor finds it, has a positive-length
\* overlap with the edge's interval.
OverlappingChildren(e) ==
    {c \in ChildrenWithChain(e) :
        CellsOf(segments, ChainFrom(segments, A[c], {}))
            \cap (e.left .. e.right - 1) # {}}

\* C14: remove_ancestry(edge) pushes exactly one heap entry for each child
\* with a positive-length overlap, keyed by the leftmost extracted position,
\* from which all the child's extracted ancestry is reachable by next links
\* (the heap holds these and the parent's own chain, nothing else); a child
\* with a chain but no positive-length overlap keeps its chain and its A
\* entry, and when no child overlaps nothing is allocated.
OneEntryPerOverlappingChild ==
    [][ RemoveReturned =>
          /\ Len(H') = Cardinality(OverlappingChildren(edge'))
                       + (IF A[edge'.parent] # None THEN 1 ELSE 0)
          /\ \A c \in OverlappingChildren(edge') :
               LET overlap == CellsOf(segments, ChainFrom(segments, A[c], {}))
                                 \cap (edge'.left .. edge'.right - 1)
               IN /\ Cardinality(HeapEntriesOf(c)) = 1
                  /\ \A j \in HeapEntriesOf(c) :
                       /\ H'[j].key = SetMin(overlap)
                       /\ segments'[H'[j].seg].left = SetMin(overlap)
                       /\ overlap \subseteq
                            CellsOf(segments',
                                    ChainFrom(segments', H'[j].seg, {}))
          /\ \A c \in ChildrenWithChain(edge') \ OverlappingChildren(edge') :
               /\ A'[c] = A[c]
               /\ \A i \in ChainFrom(segments, A[c], {}) :
                      segments'[i] = segments[i]
          /\ OverlappingChildren(edge') = {} =>
                segment_stack' = segment_stack
      ]_vars

\* merge_labeled_ancestors(H, parent, pop) has just returned.
MergeReturned == pc = "merge" /\ pc' = "remove"

\* The members of the heap handed to the merge that cover position x:
\* pairs of a heap entry and a segment reachable from it by next links.
MembersAt(x) ==
    {p \in UNION {{<<j, i>> : i \in ChainFrom(segments, H[j].seg, {})}
                    : j \in 1 .. Len(H)} :
        segments[p[2]].left <= x /\ x < segments[p[2]].right}

\* The lineage count S records for position x (the value at the floor key).
CountAt(Sm, x) == Sm[floor_key(Sm, x)]

\* The positions the merged chain has to cover: covered by a member, and
\* not by as many members (two or more) as there are extant lineages.
MergedCells ==
    {x \in 0 .. m - 1 :
        /\ MembersAt(x) # {}
        /\ ~(Cardinality(MembersAt(x)) >= 2
             /\ Cardinality(MembersAt(x)) = CountAt(S, x))}

\* C15: merge_labeled_ancestors ends with H empty; when there is ancestry
\* to emit, A[parent] names a chain of ordered, disjoint, positive-length
\* segments that covers exactly the positions covered by a member of H,
\* minus the fully coalesced ones; a position with two or more members
\* carries the call's fresh node id and a position with one member keeps
\* that member's node label.
MergeConservesAncestry ==
    [][ MergeReturned =>
          /\ H' = <<>>
          /\ MergedCells # {} =>
               LET chain == ChainFrom(segments', A'[edge.parent], {}) IN
               /\ A'[edge.parent] # None
               /\ segments'[A'[edge.parent]].prev = None
               /\ \A i \in chain :
                    /\ segments'[i].left < segments'[i].right
                    /\ segments'[i].next # None =>
                          segments'[i].right
                              <= segments'[segments'[i].next].left
               /\ CellsOf(segments', chain) = MergedCells
               /\ \A i \in chain :
                    \A x \in segments'[i].left .. segments'[i].right - 1 :
                       IF Cardinality(MembersAt(x)) >= 2
                       THEN segments'[i].node = w' - 1 /\ w' = w + 1
                       ELSE \A p \in MembersAt(x) :
                               segments'[i].node = segments[p[2]].node
      ]_vars

\* The nodes whose chain (from their entry in A) covers position x.
LineagesAt(x) ==
    {u \in Nodes : A[u] # None
                   /\ x \in CellsOf(segments, ChainFrom(segments, A[u], {}))}

\* C16: between edge steps, from construction on, the value of S at the
\* greatest key <= x is the number of entries of A whose chain covers x,
\* for every position x of the sequence.
CounterCountsLineages ==
    BetweenEdges =>
        \A x \in 0 .. m - 1 :
            /\ HasFloor(S, x)
            /\ CountAt(S, x) = Cardinality(LineagesAt(x))

\* C17: a merge_labeled_ancestors call that appends records (one per
\* multi-member batch) advances the next-id counter by exactly one and all
\* its records carry that one id; a call that appends none leaves the
\* counter unchanged; so the new-parent ids in C, in log order, are the
\* consecutive integers from the initial counter value on, and none is the
\* id of a kept sample.
FreshNodeIds ==
    [][ MergeReturned =>
          /\ Len(C') >= Len(C)
          /\ \A i \in 1 .. Len(C) : C'[i] = C[i]
          /\ IF Len(C') > Len(C)
             THEN /\ w' = w + 1
                  /\ \A i \in Len(C) + 1 .. Len(C') : C'[i].u = w
             ELSE w' = w
          /\ {C'[i].u : i \in 1 .. Len(C')}
                 = InitialNextId(n, samples) .. w' - 1
          /\ \A i \in 1 .. Len(C') - 1 : C'[i].u <= C'[i + 1].u
          /\ \A i \in 1 .. Len(C') : C'[i].u \notin samples
      ]_vars

\* Two calls with coalescences, one of them with several records, and so
\* two fresh ids.
FreshNodeIdsReached ==
    /\ pc = "remove"
    /\ Len(C) >= 3
    /\ C[1].u = n /\ C[Len(C)].u = n + 1
    /\ w = n + 2

(***************************************************************************)
(* Termination (specification SpecLive).  The input is finite, so          *)
(* simplify() goes on to the next call until the edgesets are used up; a   *)
(* loop inside a call that has not ended after MaxLoop iterations is       *)
(* reported as diverged.                                                   *)
(***************************************************************************)
SpecLive == Init /\ [][Next]_vars /\ WF_vars(Next)

\* Following next links from segment i comes back to a segment seen before.
RECURSIVE CyclicFrom(_, _, _)
CyclicFrom(segs, i, seen) ==
    IF i = None THEN FALSE
    ELSE IF i \in seen THEN TRUE
    ELSE CyclicFrom(segs, segs[i].next, seen \cup {i})

NoCyclicChain ==
    /\ \A u \in Nodes : A[u] # None => ~CyclicFrom(segments, A[u], {})
    /\ \A j \in 1 .. Len(H) : ~CyclicFrom(segments, H[j].seg, {})

\* C18: simplify() terminates: the run reaches its end (or stops on an
\* exhausted arena), no chain walk of remove_ancestry and no loop of
\* merge_labeled_ancestors goes on for ever, and no chain is ever cyclic.
Termination ==
    /\ <>(pc \notin {"remove", "merge"})
    /\ [](pc # "diverged" /\ NoCyclicChain)

\* A run over MaxEdges edgesets, with coalescences, that has returned.
TerminationReached ==
    /\ pc = "done"
    /\ Len(edges_done) = MaxEdges
    /\ Len(C) >= 2
    /\ \E u \in Nodes : A[u] # None /\ segments[A[u]].next # None

\* The segments of the chain that starts at the head A[u].
ChainOf(u) == ChainFrom(segments, A[u], {})

\* C19: between edge steps, each chain named in A has a head without
\* predecessor, segments of positive length in increasing, non-overlapping
\* order, next and prev links that are mutual inverses, and no segment that
\* is in the chains of two nodes or on the free list.
ChainWellFormedness ==
    BetweenEdges =>
        \A u \in Nodes : A[u] # None =>
            /\ segments[A[u]].prev = None
            /\ \A i \in ChainOf(u) :
                  /\ segments[i].left < segments[i].right
                  /\ i \notin FreeSlots
                  /\ segments[i].next # None =>
                        /\ segments[i].right <= segments[segments[i].next].left
                        /\ segments[segments[i].next].prev = i
            /\ \A v \in Nodes \ {u} :
                  A[v] # None => ChainOf(u) \cap ChainOf(v) = {}

\* C20: in every state of a run the breakpoint map S holds the keys 0 and
\* sequence_length, S[sequence_length] is -1, no key lies outside
\* [0, sequence_length], and every value below sequence_length is >= 0.
BreakpointSentinels ==
    pc # "idle" =>
        /\ 0 \in DOMAIN S
        /\ m \in DOMAIN S
        /\ S[m] = -1
        /\ \A k \in DOMAIN S : 0 <= k /\ k <= m
        /\ \A k \in DOMAIN S : k < m => S[k] >= 0

\* A merge call has coalesced and left S with a breakpoint inside the
\* sequence.
BreakpointSentinelsReached ==
    /\ BetweenEdges
    /\ Len(C) >= 1
    /\ \E k \in DOMAIN S : 0 < k /\ k < m
    /\ \E k \in DOMAIN S : k < m /\ S[k] = 0

=============================================================================
